---- MODULE Spec2Model ----
(***************************************************************************)
(* A model of lifelines' GeneralizedGammaFitter                            *)
(* (src/lifelines/fitters/generalized_gamma_fitter.py).                    *)
(*                                                                         *)
(* The fitter is numerical code.  Floating-point values are modelled as    *)
(* exact real numbers extended with the IEEE specials nan, +inf and -inf.  *)
(* A finite real is kept in a normal form: a linear combination, with      *)
(* rational coefficients, of atoms (1, ln 2, exp(w), ln(v), P(k, x), ...). *)
(* Each numpy / scipy / autograd_gamma function the fitter calls is an     *)
(* operator on this normal form, so that two expressions are equal in the  *)
(* model only when the arithmetic makes them equal.                        *)
(***************************************************************************)
EXTENDS Integers, Sequences, FiniteSets, TLC

VARIABLES self, last

vars == <<self, last>>

(***************************************************************************)
(* Rational numbers <<n, d>>, d > 0, in lowest terms.                      *)
(***************************************************************************)
Abs(n) == IF n < 0 THEN -n ELSE n

RECURSIVE GCD(_, _)
GCD(a, b) == IF b = 0 THEN a ELSE GCD(b, a % b)

Rat(n, d) ==
    LET s == IF d < 0 THEN -1 ELSE 1
        g == GCD(Abs(n), Abs(d))
    IN  <<(s * n) \div g, (s * d) \div g>>

RAdd(p, q) == Rat(p[1] * q[2] + q[1] * p[2], p[2] * q[2])
RMul(p, q) == Rat(p[1] * q[1], p[2] * q[2])
RNeg(p) == <<-p[1], p[2]>>
RSub(p, q) == RAdd(p, RNeg(q))
RInv(p) == Rat(p[2], p[1])
RLt(p, q) == p[1] * q[2] < q[1] * p[2]
RLe(p, q) == p[1] * q[2] <= q[1] * p[2]
RSign(p) == IF p[1] > 0 THEN 1 ELSE IF p[1] < 0 THEN -1 ELSE 0
RFloor(p) == p[1] \div p[2]

RECURSIVE Pow2(_)
Pow2(j) ==
    IF j = 0 THEN <<1, 1>>
    ELSE IF j > 0 THEN RMul(<<2, 1>>, Pow2(j - 1))
    ELSE RMul(<<1, 2>>, Pow2(j + 1))

\* the exponent j of the power of two in r = 2^j * m, m a ratio of odd numbers
RECURSIVE TwoExp(_)
TwoExp(r) ==
    IF r[1] % 2 = 0 THEN 1 + TwoExp(<<r[1] \div 2, r[2]>>)
    ELSE IF r[2] % 2 = 0 THEN TwoExp(<<r[1], r[2] \div 2>>) - 1
    ELSE 0

OddPart(r) == RMul(r, Pow2(-TwoExp(r)))

(***************************************************************************)
(* Floating-point values.  c is the class (finite, nan, +inf, -inf); t is  *)
(* the set of <<atom, coefficient>> terms of a finite value (empty: 0).    *)
(***************************************************************************)
Fin(t) == [c |-> "fin", t |-> t]
NaN == [c |-> "nan", t |-> {}]
PInf == [c |-> "inf", t |-> {}]
NInf == [c |-> "ninf", t |-> {}]

ONE == <<"one">>
LN2 == <<"ln2">>
EXPMAX == <<"expmax">>

Q(r) == IF r[1] = 0 THEN Fin({}) ELSE Fin({<<ONE, r>>})
Num(n) == Q(<<n, 1>>)
Term(a) == Fin({<<a, <<1, 1>>>>})

IsFinite(v) == v.c = "fin"
AtomsOf(v) == {p[1] : p \in v.t}
Coef(v, a) ==
    IF \E p \in v.t : p[1] = a THEN (CHOOSE p \in v.t : p[1] = a)[2] ELSE <<0, 1>>
IsRat(v) == v.c = "fin" /\ AtomsOf(v) \subseteq {ONE}
RatOf(v) == Coef(v, ONE)

Combine(u, v) ==
    Fin({p \in {<<a, RAdd(Coef(u, a), Coef(v, a))>> : a \in AtomsOf(u) \cup AtomsOf(v)} :
            p[2][1] # 0})
Scale(r, v) == IF r[1] = 0 THEN Fin({}) ELSE Fin({<<p[1], RMul(r, p[2])>> : p \in v.t})

\* atoms that stand for a positive real number
PosAtom(a) == a[1] \in {"one", "ln2", "exp", "gam", "ginv", "expmax"}

\* the sign of a value, where the normal form shows it
RECURSIVE Sign(_)
Sign(v) ==
    CASE v.c = "inf" -> 1
      [] v.c = "ninf" -> -1
      [] v.c = "fin" /\ v.t = {} -> 0
      [] v.c = "fin" /\ v.t # {} /\ (\A p \in v.t : PosAtom(p[1]) /\ p[2][1] > 0) -> 1
      [] v.c = "fin" /\ v.t # {} /\ (\A p \in v.t : PosAtom(p[1]) /\ p[2][1] < 0) -> -1
      \* 1 - P(k, x) and 1 - exp(-x), x > 0, lie strictly between 0 and 1
      [] v.c = "fin" /\ Cardinality(v.t) = 2 /\ <<ONE, <<1, 1>>>> \in v.t
            /\ (\E p \in v.t : /\ p[2] = <<-1, 1>>
                               /\ \/ p[1][1] = "gam"
                                  \/ p[1][1] = "exp" /\ Sign(p[1][2]) < 0) -> 1

Add(u, v) ==
    IF u.c = "nan" \/ v.c = "nan" THEN NaN
    ELSE IF u.c = "fin" /\ v.c = "fin" THEN Combine(u, v)
    ELSE IF u.c = "fin" THEN v
    ELSE IF v.c = "fin" THEN u
    ELSE IF u.c = v.c THEN u
    ELSE NaN

Neg(v) ==
    CASE v.c = "nan" -> NaN
      [] v.c = "inf" -> NInf
      [] v.c = "ninf" -> PInf
      [] v.c = "fin" -> Scale(<<-1, 1>>, v)

Sub(u, v) == Add(u, Neg(v))

\* log of a positive rational: j ln 2 + ln(m) for r = 2^j * m
LogRat(r) ==
    Combine(Scale(<<TwoExp(r), 1>>, Term(LN2)),
            IF OddPart(r) = <<1, 1>> THEN Fin({}) ELSE Term(<<"ln", Q(OddPart(r))>>))

\* numpy.log
log(v) ==
    CASE v.c = "nan" -> NaN
      [] v.c = "inf" -> PInf
      [] v.c = "ninf" -> NaN
      [] v.c = "fin" /\ v.t = {} -> NInf
      [] v.c = "fin" /\ v.t # {} /\ Sign(v) < 0 -> NaN
      [] v.c = "fin" /\ v.t # {} /\ Sign(v) > 0 ->
            IF Cardinality(v.t) = 1
            THEN LET p == CHOOSE p \in v.t : TRUE
                     a == p[1]
                 IN  Combine(LogRat(p[2]),
                             IF a = ONE THEN Fin({})
                             ELSE IF a[1] = "exp" THEN a[2]
                             ELSE Term(<<"ln", Term(a)>>))
            ELSE Term(<<"ln", v>>)

\* the largest |j| for which 2^j is kept as a rational number; a larger
\* power of two stays in the form exp(j ln 2)
MaxPow == 10

\* numpy.exp
exp(w) ==
    CASE w.c = "nan" -> NaN
      [] w.c = "inf" -> PInf
      [] w.c = "ninf" -> Fin({})
      [] w.c = "fin" /\ Abs(RFloor(Coef(w, LN2))) > MaxPow -> Term(<<"exp", w>>)
      [] w.c = "fin" /\ Abs(RFloor(Coef(w, LN2))) <= MaxPow ->
            LET b == Coef(w, LN2)
                j == RFloor(b)
                f == RSub(b, <<j, 1>>)
                rest == Combine(Fin({p \in w.t : p[1] # LN2}), Scale(f, Term(LN2)))
            IN  Scale(Pow2(j),
                      IF rest.t = {} THEN Num(1)
                      ELSE IF Cardinality(rest.t) = 1
                              /\ (\E p \in rest.t : p[1][1] = "ln" /\ p[2] = <<1, 1>>)
                           THEN (CHOOSE p \in rest.t : TRUE)[1][2]
                           ELSE Term(<<"exp", rest>>))

\* a single term c * exp(w), or a power of two +-2^j: a product with such a
\* value is put in the normal form of exp again, so that x * e^w and
\* e^(w + log x) are the same value whatever the size of the exponent
IsExpTerm(v) ==
    /\ v.c = "fin"
    /\ Cardinality(v.t) = 1
    /\ \E p \in v.t : \/ p[1][1] = "exp"
                       \/ (p[1] = ONE /\ OddPart(<<Abs(p[2][1]), p[2][2]>>) = <<1, 1>>)

\* r times the single term v is in normal form as it stands: the power of
\* two stays within MaxPow
StaysSmall(r, v) ==
    \A p \in v.t :
        /\ p[1] = ONE \/ Abs(RFloor(Coef(p[1][2], LN2))) <= MaxPow
        /\ Abs(TwoExp(RMul(r, p[2]))) <= MaxPow

Mul(u, v) ==
    IF u.c = "nan" \/ v.c = "nan" THEN NaN
    ELSE IF u.c = "fin" /\ v.c = "fin"
         THEN IF u.t = {} \/ v.t = {} THEN Fin({})
              ELSE IF IsRat(u) /\ (~IsExpTerm(v) \/ StaysSmall(RatOf(u), v))
                   THEN Scale(RatOf(u), v)
              ELSE IF IsRat(v) /\ (~IsExpTerm(u) \/ StaysSmall(RatOf(v), u))
                   THEN Scale(RatOf(v), u)
              ELSE IF Sign(u) * Sign(v) > 0
                   THEN exp(Add(log(IF Sign(u) > 0 THEN u ELSE Neg(u)),
                                log(IF Sign(v) > 0 THEN v ELSE Neg(v))))
                   ELSE Neg(exp(Add(log(IF Sign(u) > 0 THEN u ELSE Neg(u)),
                                    log(IF Sign(v) > 0 THEN v ELSE Neg(v)))))
    ELSE IF Sign(u) * Sign(v) > 0 THEN PInf
    ELSE IF Sign(u) * Sign(v) < 0 THEN NInf
    ELSE NaN

\* IEEE division (numpy.float64): a division by zero gives nan or an
\* infinity, with a warning and no exception
Div(u, v) ==
    IF u.c = "nan" \/ v.c = "nan" THEN NaN
    ELSE IF v.c # "fin" THEN (IF u.c = "fin" THEN Fin({}) ELSE NaN)
    ELSE IF v.t = {} THEN (IF Sign(u) > 0 THEN PInf ELSE IF Sign(u) < 0 THEN NInf ELSE NaN)
    ELSE IF IsRat(v) THEN Mul(u, Q(RInv(RatOf(v))))
    ELSE Mul(u, IF Sign(v) > 0 THEN exp(Neg(log(v))) ELSE Neg(exp(Neg(log(Neg(v))))))

Gt0(v) == v.c # "nan" /\ Sign(v) > 0

(***************************************************************************)
(* The library functions the fitter imports.                               *)
(***************************************************************************)
\* lifelines.utils.safe_exp: exp(clip(x, -inf, MAX)); an overflowing
\* exponent is clamped, so the result is the finite value exp(MAX) and never
\* inf.  Every finite exponent of the bounded model lies below the clamp.
safe_exp(x) == IF x.c = "inf" THEN Term(EXPMAX) ELSE exp(x)

\* the regularized lower incomplete gamma function P(k, x)
gammainc(k, x) ==
    IF k.c = "nan" \/ x.c = "nan" THEN NaN
    ELSE IF ~IsRat(k) \/ Sign(k) <= 0 THEN NaN
    ELSE IF Sign(x) < 0 THEN NaN
    ELSE IF Sign(x) = 0 THEN Num(0)
    ELSE IF x.c = "inf" \/ x = Term(EXPMAX) THEN Num(1)
    ELSE IF \E tail \in {"lower", "upper"}, p \in {c[1][4] : c \in {d \in x.t : d[1][1] = "ginv"}} :
                x = Term(<<"ginv", tail, RatOf(k), p>>)
         \* P(k, .) undoes its own inverse, and is the complement on the other tail's inverse
         THEN LET a == (CHOOSE c \in x.t : TRUE)[1]
              IN  IF a[2] = "lower" THEN Q(a[4]) ELSE Q(RSub(<<1, 1>>, a[4]))
    ELSE IF RatOf(k) = <<1, 1>> THEN Sub(Num(1), exp(Neg(x)))
    ELSE Term(<<"gam", RatOf(k), x>>)

\* the regularized upper incomplete gamma function Q(k, x) = 1 - P(k, x)
gammaincc(k, x) == Sub(Num(1), gammainc(k, x))

\* autograd_gamma: the logarithms of the two tails
gammaincln(k, x) == log(gammainc(k, x))
gammainccln(k, x) == log(gammaincc(k, x))

\* log Gamma(k)
gammaln(k) ==
    IF k.c # "fin" THEN k
    ELSE IF RatOf(k) = <<1, 1>> THEN Num(0)
    ELSE Term(<<"lgamma", RatOf(k)>>)

\* scipy.special: the inverses in x of P(k, x) = p and of Q(k, x) = p, for
\* 0 < p < 1; a non-finite shape gives no root (nan)
gammaincinv(k, p) ==
    IF ~IsRat(k) \/ Sign(k) <= 0 THEN NaN ELSE Term(<<"ginv", "lower", RatOf(k), RatOf(p)>>)
gammainccinv(k, p) ==
    IF ~IsRat(k) \/ Sign(k) <= 0 THEN NaN ELSE Term(<<"ginv", "upper", RatOf(k), RatOf(p)>>)

(***************************************************************************)
(* numpy arrays are sequences of values; arithmetic on them is elementwise.*)
(***************************************************************************)
ALog(xs) == [i \in DOMAIN xs |-> log(xs[i])]
ASub(xs, ys) == [i \in DOMAIN xs |-> Sub(xs[i], ys[i])]

RECURSIVE ASum(_)
ASum(xs) == IF xs = <<>> THEN Num(0) ELSE Add(Head(xs), ASum(Tail(xs)))

\* ndarray.mean
Mean(xs) == IF xs = <<>> THEN NaN ELSE Div(ASum(xs), Num(Len(xs)))

\* ndarray.std: sqrt(mean(|x - mean|^2)).  The deviations d_i of the data
\* are rational multiples r_i of one of them, u > 0, so that
\* std = u * sqrt(mean(r_i^2)).
Deviations(xs) == [i \in DOMAIN xs |-> Sub(xs[i], Mean(xs))]
AbsV(v) == IF Sign(v) < 0 THEN Neg(v) ELSE v
Ratio(v, u) == RMul(Coef(v, (CHOOSE p \in u.t : TRUE)[1]),
                    RInv(Coef(u, (CHOOSE p \in u.t : TRUE)[1])))
Sqrt(r) == exp(Scale(<<1, 2>>, LogRat(r)))
MeanSq(r) == RatOf(Mean([i \in DOMAIN r |-> Q(RMul(r[i], r[i]))]))
StdRatios(d, u, r) ==
    IF \A i \in DOMAIN d : d[i] = Scale(r[i], u)
    THEN Mul(u, Sqrt(MeanSq(r)))
    ELSE CHOOSE x \in {} : TRUE
StdUnit(d, u) == StdRatios(d, u, [i \in DOMAIN d |-> Ratio(d[i], u)])
StdOfDev(d) ==
    IF d = <<>> \/ \E i \in DOMAIN d : d[i].c # "fin" THEN NaN
    ELSE IF \A i \in DOMAIN d : d[i].t = {} THEN Num(0)
    ELSE StdUnit(d, AbsV(d[CHOOSE i \in DOMAIN d : d[i].t # {}]))
Std(xs) == StdOfDev(Deviations(xs))

(***************************************************************************)
(* GeneralizedGammaFitter                                                  *)
(***************************************************************************)
_fitted_parameter_names == <<"mu_", "ln_sigma_", "lambda_">>
_compare_to_values == <<Num(0), Num(0), Num(1)>>

\* a variant of _create_initial_point whose left-censoring branch reads Ts[0]
_create_initial_point_left_reads_lower(censoring, Ts, E) ==
    LET log_data ==
            IF censoring = "right" THEN ALog(Ts[1])
            ELSE IF censoring = "left" THEN ALog(Ts[1])
            ELSE ALog(ASub(Ts[2], Ts[1]))
    IN  <<Mean(log_data), log(Std(log_data)), Q(<<1, 10>>)>>

\* Python indexes Ts[0], Ts[1]; the sequences here are indexed from 1
_create_initial_point(censoring, Ts, E) ==
    LET log_data ==
            IF censoring = "right" THEN ALog(Ts[1])
            ELSE IF censoring = "left" THEN ALog(Ts[2])
            ELSE ALog(ASub(Ts[2], Ts[1]))
    IN  <<Mean(log_data), log(Std(log_data)), Q(<<1, 10>>)>>

\* variants of _survival_function: the -2 log|lambda| rescaling left out;
\* the upper tail on both branches; Z multiplied by sigma_; log of |times|
_survival_function_no_rescale(params, times) ==
    LET mu_ == params[1]
        ln_sigma_ == params[2]
        lambda_ == params[3]
        sigma_ == safe_exp(ln_sigma_)
    IN  [i \in DOMAIN times |->
            LET Z == Div(Sub(log(times[i]), mu_), sigma_)
            IN  IF Gt0(lambda_)
                THEN gammaincc(Div(Num(1), Mul(lambda_, lambda_)), safe_exp(Mul(lambda_, Z)))
                ELSE gammainc(Div(Num(1), Mul(lambda_, lambda_)), safe_exp(Mul(lambda_, Z)))]

_survival_function_upper_only(params, times) ==
    LET mu_ == params[1]
        ln_sigma_ == params[2]
        lambda_ == params[3]
        sigma_ == safe_exp(ln_sigma_)
    IN  [i \in DOMAIN times |->
            LET Z == Div(Sub(log(times[i]), mu_), sigma_)
            IN  IF Gt0(lambda_)
                THEN gammaincc(Div(Num(1), Mul(lambda_, lambda_)),
                               safe_exp(Sub(Mul(lambda_, Z), Mul(Num(2), log(lambda_)))))
                ELSE gammaincc(Div(Num(1), Mul(lambda_, lambda_)),
                               safe_exp(Sub(Mul(lambda_, Z), Mul(Num(2), log(Neg(lambda_))))))]

_survival_function_times_sigma(params, times) ==
    LET mu_ == params[1]
        ln_sigma_ == params[2]
        lambda_ == params[3]
        sigma_ == safe_exp(ln_sigma_)
    IN  [i \in DOMAIN times |->
            LET Z == Mul(Sub(log(times[i]), mu_), sigma_)
            IN  IF Gt0(lambda_)
                THEN gammaincc(Div(Num(1), Mul(lambda_, lambda_)),
                               safe_exp(Sub(Mul(lambda_, Z), Mul(Num(2), log(lambda_)))))
                ELSE gammainc(Div(Num(1), Mul(lambda_, lambda_)),
                              safe_exp(Sub(Mul(lambda_, Z), Mul(Num(2), log(Neg(lambda_))))))]

_survival_function_abs_times(params, times) ==
    LET mu_ == params[1]
        ln_sigma_ == params[2]
        lambda_ == params[3]
        sigma_ == safe_exp(ln_sigma_)
    IN  [i \in DOMAIN times |->
            LET Z == Div(Sub(log(AbsV(times[i])), mu_), sigma_)
            IN  IF Gt0(lambda_)
                THEN gammaincc(Div(Num(1), Mul(lambda_, lambda_)),
                               safe_exp(Sub(Mul(lambda_, Z), Mul(Num(2), log(lambda_)))))
                ELSE gammainc(Div(Num(1), Mul(lambda_, lambda_)),
                              safe_exp(Sub(Mul(lambda_, Z), Mul(Num(2), log(Neg(lambda_))))))]

_survival_function(params, times) ==
    LET mu_ == params[1]
        ln_sigma_ == params[2]
        lambda_ == params[3]
        sigma_ == safe_exp(ln_sigma_)
    IN  [i \in DOMAIN times |->
            LET Z == Div(Sub(log(times[i]), mu_), sigma_)
            IN  IF Gt0(lambda_)
                THEN gammaincc(Div(Num(1), Mul(lambda_, lambda_)),
                               safe_exp(Sub(Mul(lambda_, Z), Mul(Num(2), log(lambda_)))))
                ELSE gammainc(Div(Num(1), Mul(lambda_, lambda_)),
                              safe_exp(Sub(Mul(lambda_, Z), Mul(Num(2), log(Neg(lambda_))))))]

\* a variant of _cumulative_hazard with the upper tail on both branches
_cumulative_hazard_upper_only(params, times) ==
    LET mu_ == params[1]
        ln_sigma_ == params[2]
        lambda_ == params[3]
        sigma_ == safe_exp(ln_sigma_)
        ilambda_2 == Div(Num(1), Mul(lambda_, lambda_))
    IN  [i \in DOMAIN times |->
            LET Z == Div(Sub(log(times[i]), mu_), sigma_)
            IN  IF Gt0(lambda_)
                THEN Neg(gammainccln(ilambda_2,
                                     safe_exp(Sub(Mul(lambda_, Z), Mul(Num(2), log(lambda_))))))
                ELSE Neg(gammainccln(ilambda_2,
                                     safe_exp(Sub(Mul(lambda_, Z), Mul(Num(2), log(Neg(lambda_)))))))]

_cumulative_hazard(params, times) ==
    LET mu_ == params[1]
        ln_sigma_ == params[2]
        lambda_ == params[3]
        sigma_ == safe_exp(ln_sigma_)
        ilambda_2 == Div(Num(1), Mul(lambda_, lambda_))
    IN  [i \in DOMAIN times |->
            LET Z == Div(Sub(log(times[i]), mu_), sigma_)
            IN  IF Gt0(lambda_)
                THEN Neg(gammainccln(ilambda_2,
                                     safe_exp(Sub(Mul(lambda_, Z), Mul(Num(2), log(lambda_))))))
                ELSE Neg(gammaincln(ilambda_2,
                                    safe_exp(Sub(Mul(lambda_, Z), Mul(Num(2), log(Neg(lambda_)))))))]

\* a variant of _log_1m_sf that takes the tails _survival_function takes
_log_1m_sf_same_tail(params, times) ==
    LET mu_ == params[1]
        ln_sigma_ == params[2]
        lambda_ == params[3]
        sigma_ == safe_exp(ln_sigma_)
    IN  [i \in DOMAIN times |->
            LET Z == Div(Sub(log(times[i]), mu_), sigma_)
            IN  IF Gt0(lambda_)
                THEN gammainccln(Div(Num(1), Mul(lambda_, lambda_)),
                                 safe_exp(Sub(Mul(lambda_, Z), Mul(Num(2), log(lambda_)))))
                ELSE gammaincln(Div(Num(1), Mul(lambda_, lambda_)),
                                safe_exp(Sub(Mul(lambda_, Z), Mul(Num(2), log(Neg(lambda_))))))]

_log_1m_sf(params, times) ==
    LET mu_ == params[1]
        ln_sigma_ == params[2]
        lambda_ == params[3]
        sigma_ == safe_exp(ln_sigma_)
    IN  [i \in DOMAIN times |->
            LET Z == Div(Sub(log(times[i]), mu_), sigma_)
            IN  IF Gt0(lambda_)
                THEN gammaincln(Div(Num(1), Mul(lambda_, lambda_)),
                                safe_exp(Sub(Mul(lambda_, Z), Mul(Num(2), log(lambda_)))))
                ELSE gammainccln(Div(Num(1), Mul(lambda_, lambda_)),
                                 safe_exp(Sub(Mul(lambda_, Z), Mul(Num(2), log(Neg(lambda_))))))]

\* a left-to-right sum, as Python evaluates a - b - c + d - e
RECURSIVE SumLR(_)
SumLR(xs) == IF Len(xs) = 1 THEN xs[1] ELSE Add(SumLR(SubSeq(xs, 1, Len(xs) - 1)), xs[Len(xs)])

\* a variant of _log_hazard whose lambda < 0 branch subtracts the log of the
\* upper tail, as its lambda > 0 branch does
_log_hazard_upper_only(params, times) ==
    LET mu_ == params[1]
        ln_sigma_ == params[2]
        lambda_ == params[3]
        ilambda_2 == Div(Num(1), Mul(lambda_, lambda_))
    IN  [i \in DOMAIN times |->
            LET Z == Div(Sub(log(times[i]), mu_), safe_exp(ln_sigma_))
            IN  IF Gt0(lambda_)
                THEN SumLR(<<
                        log(lambda_),
                        Neg(log(times[i])),
                        Neg(ln_sigma_),
                        Neg(gammaln(ilambda_2)),
                        Mul(Sub(Sub(Mul(lambda_, Z), safe_exp(Mul(lambda_, Z))),
                                Mul(Num(2), log(lambda_))), ilambda_2),
                        Neg(gammainccln(ilambda_2,
                                safe_exp(Sub(Mul(lambda_, Z), Mul(Num(2), log(lambda_))))))>>)
                ELSE SumLR(<<
                        log(Neg(lambda_)),
                        Neg(log(times[i])),
                        Neg(ln_sigma_),
                        Neg(gammaln(ilambda_2)),
                        Mul(Sub(Sub(Mul(lambda_, Z), safe_exp(Mul(lambda_, Z))),
                                Mul(Num(2), log(Neg(lambda_)))), ilambda_2),
                        Neg(gammainccln(ilambda_2,
                                safe_exp(Sub(Mul(lambda_, Z), Mul(Num(2), log(Neg(lambda_)))))))>>)]

_log_hazard(params, times) ==
    LET mu_ == params[1]
        ln_sigma_ == params[2]
        lambda_ == params[3]
        ilambda_2 == Div(Num(1), Mul(lambda_, lambda_))
    IN  [i \in DOMAIN times |->
            LET Z == Div(Sub(log(times[i]), mu_), safe_exp(ln_sigma_))
            IN  IF Gt0(lambda_)
                THEN SumLR(<<
                        log(lambda_),
                        Neg(log(times[i])),
                        Neg(ln_sigma_),
                        Neg(gammaln(ilambda_2)),
                        Mul(Sub(Sub(Mul(lambda_, Z), safe_exp(Mul(lambda_, Z))),
                                Mul(Num(2), log(lambda_))), ilambda_2),
                        Neg(gammainccln(ilambda_2,
                                safe_exp(Sub(Mul(lambda_, Z), Mul(Num(2), log(lambda_))))))>>)
                ELSE SumLR(<<
                        log(Neg(lambda_)),
                        Neg(log(times[i])),
                        Neg(ln_sigma_),
                        Neg(gammaln(ilambda_2)),
                        Mul(Sub(Sub(Mul(lambda_, Z), safe_exp(Mul(lambda_, Z))),
                                Mul(Num(2), log(Neg(lambda_)))), ilambda_2),
                        Neg(gammaincln(ilambda_2,
                                safe_exp(Sub(Mul(lambda_, Z), Mul(Num(2), log(Neg(lambda_)))))))>>)]

\* a variant of percentile that inverts the upper tail whatever the sign of lambda_
percentile_upper_only(obj, p) ==
    LET lambda_ == obj.lambda_
        sigma_ == exp(obj.ln_sigma_)
    IN  Mul(exp(Div(Mul(sigma_, log(Mul(gammainccinv(Div(Num(1), Mul(lambda_, lambda_)), p),
                                        Mul(lambda_, lambda_)))),
                    lambda_)),
            exp(obj.mu_))

\* percentile reads the fitted attributes of the instance
percentile(obj, p) ==
    LET lambda_ == obj.lambda_
        sigma_ == exp(obj.ln_sigma_)
    IN  IF Gt0(lambda_)
        THEN Mul(exp(Div(Mul(sigma_, log(Mul(gammainccinv(Div(Num(1), Mul(lambda_, lambda_)), p),
                                             Mul(lambda_, lambda_)))),
                         lambda_)),
                 exp(obj.mu_))
        ELSE Mul(exp(Div(Mul(sigma_, log(Mul(gammaincinv(Div(Num(1), Mul(lambda_, lambda_)), p),
                                             Mul(lambda_, lambda_)))),
                         lambda_)),
                 exp(obj.mu_))

(***************************************************************************)
(* Bounds of the model and the inputs drawn within them.                   *)
(***************************************************************************)
MaxExp == 1
MaxMu == 1
MaxLnSigma == 1
MaxLam == 1
PDen == 4
MaxN == 2

Ln2Times(j) == Scale(<<j, 1>>, Term(LN2))

\* times 2^j, and the two kinds of invalid time: zero and negative
PosTimes == {Q(Pow2(j)) : j \in (-MaxExp)..MaxExp}
NonPosTimes == {Num(0), Num(-1)}
\* an array of two times, in ascending order
TimeArrays == {ts \in (PosTimes \cup NonPosTimes) \X (PosTimes \cup NonPosTimes) :
                  RLe(RatOf(ts[1]), RatOf(ts[2]))}

\* mu = m ln 2, ln_sigma = s ln 2 (sigma = 2^s), lambda = +/- 2^i
MuVals == {Ln2Times(m) : m \in 0..MaxMu}
LnSigmaVals == {Ln2Times(s) : s \in (-MaxLnSigma)..MaxLnSigma}
LambdaVals == {Q(Pow2(i)) : i \in 0..MaxLam} \cup {Q(RNeg(Pow2(i))) : i \in 0..MaxLam}
ParamVals == {<<m, s, l>> : m \in MuVals, s \in LnSigmaVals, l \in LambdaVals}
ProbVals == {Q(Rat(i, PDen)) : i \in 1..(PDen - 1)}

\* the censored data: a lower and an upper array of the same length, each
\* upper bound equal to its lower bound or twice it; E is event_observed
DataArrays(n) == [1..n -> PosTimes]
UpperFor(lo) ==
    {up \in [DOMAIN lo -> {Mul(Num(f), x) : f \in 1..2, x \in PosTimes}] :
        \A i \in DOMAIN lo : up[i] \in {lo[i], Mul(Num(2), lo[i])}}
TsVals ==
    UNION {{<<lo, up>> : up \in UpperFor(lo)} : lo \in UNION {DataArrays(n) : n \in 0..MaxN}}
EVals(n) == {[i \in 1..n |-> b] : b \in BOOLEAN}

CensoringType == {"right", "left", "interval"}

(***************************************************************************)
(* The state: self is the fitter instance; last is the call being made on  *)
(* it, with its arguments and what it returns, until Return hands the      *)
(* result to the caller.                                                   *)
(***************************************************************************)
Init == self = [phase |-> "new"] /\ last = [op |-> "none"]

\* fit / fit_left_censoring / fit_interval_censoring of the base class set
\* the censoring type and start the optimization
Fit ==
    /\ last.op = "none"
    /\ self.phase \in {"new", "fitted"}
    /\ \E c \in CensoringType : self' = [phase |-> "fitting", censoring |-> c]
    /\ UNCHANGED last

CreateInitialPoint ==
    /\ last.op = "none"
    /\ self.phase = "fitting"
    /\ \E Ts \in TsVals :
       \E E \in EVals(Len(Ts[1])) :
          last' = [op |-> "_create_initial_point", Ts |-> Ts, E |-> E,
                   ret |-> _create_initial_point(self.censoring, Ts, E)]
    /\ UNCHANGED self

\* while fitting, the optimizer evaluates the model at any parameter
\* vector (lambda # 0) and any array of times
ParamsFor == IF self.phase = "fitting" THEN ParamVals ELSE {}

SurvivalFunction ==
    /\ last.op = "none"
    /\ \E params \in ParamsFor, times \in TimeArrays :
          last' = [op |-> "_survival_function", params |-> params, times |-> times,
                   ret |-> _survival_function(params, times)]
    /\ UNCHANGED self

CumulativeHazard ==
    /\ last.op = "none"
    /\ \E params \in ParamsFor, times \in TimeArrays :
          last' = [op |-> "_cumulative_hazard", params |-> params, times |-> times,
                   ret |-> _cumulative_hazard(params, times)]
    /\ UNCHANGED self

Log1mSf ==
    /\ last.op = "none"
    /\ \E params \in ParamsFor, times \in TimeArrays :
          last' = [op |-> "_log_1m_sf", params |-> params, times |-> times,
                   ret |-> _log_1m_sf(params, times)]
    /\ UNCHANGED self

LogHazard ==
    /\ last.op = "none"
    /\ \E params \in ParamsFor, times \in TimeArrays :
          last' = [op |-> "_log_hazard", params |-> params, times |-> times,
                   ret |-> _log_hazard(params, times)]
    /\ UNCHANGED self

\* the optimization ends and the fitted parameters become attributes of the
\* instance: numpy.float64 elements of the optimizer's array, or Python
\* floats when a caller assigns them
FitDone ==
    /\ last.op = "none"
    /\ self.phase = "fitting"
    /\ \E m \in MuVals, s \in LnSigmaVals, l \in LambdaVals \cup {Num(0)},
          kind \in {"numpy.float64", "float"} :
          self' = [phase |-> "fitted", censoring |-> self.censoring, scalar |-> kind,
                   mu_ |-> m, ln_sigma_ |-> s, lambda_ |-> l]
    /\ UNCHANGED last

\* 1 / lambda_ ** 2 raises ZeroDivisionError on a Python float zero and
\* gives inf (with a warning) on a numpy.float64 zero
Percentile ==
    /\ last.op = "none"
    /\ self.phase = "fitted"
    /\ \E p \in ProbVals :
          IF self.scalar = "float" /\ self.lambda_ = Num(0)
          THEN last' = [op |-> "percentile", p |-> p, raised |-> TRUE]
          ELSE last' = [op |-> "percentile", p |-> p, raised |-> FALSE,
                        ret |-> percentile(self, p)]
    /\ UNCHANGED self

\* the call returns to its caller
Return ==
    /\ last.op # "none"
    /\ last' = [op |-> "none"]
    /\ UNCHANGED self

Next ==
    \/ Fit
    \/ CreateInitialPoint
    \/ SurvivalFunction
    \/ CumulativeHazard
    \/ Log1mSf
    \/ LogHazard
    \/ FitDone
    \/ Percentile
    \/ Return

Spec == Init /\ [][Next]_vars

\* ---------------------------------------------------------------------
\* Properties
\* ---------------------------------------------------------------------

\* the evaluated times of the last call that are strictly positive
PositiveIdx == {i \in DOMAIN last.times : Gt0(last.times[i])}

Evaluators == {"_survival_function", "_cumulative_hazard", "_log_1m_sf", "_log_hazard"}

\* Z = (log t - mu) / sigma with sigma = exp(ln_sigma)
ZOf(params, t) == Div(Sub(log(t), params[1]), exp(params[2]))

\* the class docstring's survival function, with the incomplete gamma argument
\* written e^(lambda Z) / lambda^2
DocSurvival(params, t) ==
    LET lam == params[3]
        k == Div(Num(1), Mul(lam, lam))
        x == Div(exp(Mul(lam, ZOf(params, t))), Mul(lam, lam))
    IN  IF Gt0(lam) THEN Sub(Num(1), gammainc(k, x)) ELSE gammainc(k, x)

\* the same with the argument written exp(lambda Z - 2 log|lambda|)
TailSurvival(params, t) ==
    LET lam == params[3]
        k == Div(Num(1), Mul(lam, lam))
        x == exp(Sub(Mul(lam, ZOf(params, t)), Mul(Num(2), log(AbsV(lam)))))
    IN  IF Gt0(lam) THEN gammaincc(k, x) ELSE gammainc(k, x)

\* C1: for t > 0 the survival function is the upper regularized incomplete
\* gamma tail Gamma_RU(1/lambda^2, exp(lambda Z - 2 log lambda)) when
\* lambda > 0 and the lower tail Gamma_RL at -lambda's logarithm when
\* lambda < 0, which is the docstring's 1 - Gamma_RL(1/lambda^2,
\* e^(lambda Z)/lambda^2) and Gamma_RL(1/lambda^2, e^(lambda Z)/lambda^2).
C1_SurvivalTails ==
    last.op = "_survival_function" =>
        \A i \in PositiveIdx :
            /\ last.ret[i] = DocSurvival(last.params, last.times[i])
            /\ last.ret[i] = TailSurvival(last.params, last.times[i])

C1_Witness ==
    /\ last.op = "_survival_function"
    /\ last.params[3] = Num(-2)
    /\ 1 \in PositiveIdx
    /\ IsFinite(last.ret[1])
    /\ last.ret[1] = DocSurvival(last.params, last.times[1])

\* C2: for t > 0 the cumulative hazard is minus the logarithm of the
\* survival function at the same parameters and time.
C2_CumulativeHazardIsNegLogSurvival ==
    last.op = "_cumulative_hazard" =>
        \A i \in PositiveIdx :
            last.ret[i] = Neg(log(_survival_function(last.params, <<last.times[i]>>)[1]))

C2_Witness ==
    /\ last.op = "_cumulative_hazard"
    /\ Sign(last.params[3]) < 0
    /\ 1 \in PositiveIdx
    /\ IsFinite(last.ret[1])
    /\ last.ret[1] # Num(0)
    /\ last.ret[1] = Neg(log(_survival_function(last.params, <<last.times[1]>>)[1]))

\* C3: for t > 0 the exponential of _log_1m_sf is one minus the survival
\* function, i.e. the cumulative distribution function.
C3_Log1mSfIsLogCdf ==
    last.op = "_log_1m_sf" =>
        \A i \in PositiveIdx :
            exp(last.ret[i]) =
                Sub(Num(1), _survival_function(last.params, <<last.times[i]>>)[1])

C3_Witness ==
    /\ last.op = "_log_1m_sf"
    /\ last.params[3] = Num(2)
    /\ 1 \in PositiveIdx
    /\ IsFinite(last.ret[1])
    /\ exp(last.ret[1]) =
           Sub(Num(1), _survival_function(last.params, <<last.times[1]>>)[1])

\* the closed form of the log hazard:
\* log|lambda| - log t - ln_sigma - lgamma(1/lambda^2)
\*   + (lambda Z - e^(lambda Z) - 2 log|lambda|) / lambda^2 + H(t)
LogHazardClosedForm(params, t) ==
    LET lam == params[3]
        k == Div(Num(1), Mul(lam, lam))
        lZ == Mul(lam, ZOf(params, t))
        la == log(AbsV(lam))
        density == Add(Sub(Sub(Sub(la, log(t)), params[2]), gammaln(k)),
                       Mul(Sub(Sub(lZ, exp(lZ)), Mul(Num(2), la)), k))
    IN  Add(density, _cumulative_hazard(params, <<t>>)[1])

FittedParams == <<self.mu_, self.ln_sigma_, self.lambda_>>

\* C5: for lambda_ # 0 the survival function at percentile(p) is p, for
\* either sign of lambda_.
C5_PercentileRoundTrip ==
    (last.op = "percentile" /\ ~last.raised /\ self.lambda_ # Num(0)) =>
        _survival_function(FittedParams, <<last.ret>>)[1] = last.p

C5_Witness ==
    /\ last.op = "percentile"
    /\ ~last.raised
    /\ Sign(self.lambda_) < 0
    /\ last.p = Q(<<1, 4>>)
    /\ Gt0(last.ret)
    /\ _survival_function(FittedParams, <<last.ret>>)[1] = last.p

\* A probability computed by the incomplete gamma functions is read back as
\* a tail of the gamma distribution with shape k at the point x: P(k, x) is
\* the lower tail, 1 - P(k, x) the upper one, and for k = 1 the closed forms
\* 1 - e^(-x) and e^(-x).
TailTerms(v) == {q \in v.t : q[1][1] \in {"gam", "exp"}}
TailTerm(v) == CHOOSE q \in TailTerms(v) : TRUE

IsTail(v) ==
    /\ v.c = "fin"
    /\ Cardinality(TailTerms(v)) = 1
    /\ \/ v.t = {<<TailTerm(v)[1], <<1, 1>>>>}
       \/ v.t = {<<ONE, <<1, 1>>>>, <<TailTerm(v)[1], <<-1, 1>>>>}
    /\ TailTerm(v)[1][1] = "exp" => Sign(TailTerm(v)[1][2]) < 0

TailSide(v) ==
    IF (TailTerm(v)[1][1] = "gam") = (TailTerm(v)[2] = <<1, 1>>) THEN "lower" ELSE "upper"
TailShape(v) == IF TailTerm(v)[1][1] = "gam" THEN TailTerm(v)[1][2] ELSE <<1, 1>>
TailPoint(v) == IF TailTerm(v)[1][1] = "gam" THEN TailTerm(v)[1][3] ELSE Neg(TailTerm(v)[1][2])

\* x <= y for positive reals
PosLe(x, y) == Sign(Sub(log(y), log(x))) >= 0

\* u >= v for two tails of the same gamma distribution: the upper tail falls
\* and the lower tail rises with the point
TailGe(u, v) ==
    /\ TailSide(u) = TailSide(v)
    /\ TailShape(u) = TailShape(v)
    /\ IF TailSide(u) = "upper"
       THEN PosLe(TailPoint(u), TailPoint(v))
       ELSE PosLe(TailPoint(v), TailPoint(u))

\* C6: for fixed parameters the survival function is non-increasing in t
\* over t > 0 and is a probability (a regularized gamma tail, hence in [0, 1]).
C6_SurvivalNonIncreasing ==
    last.op = "_survival_function" =>
        \A i, j \in PositiveIdx :
            RLe(RatOf(last.times[i]), RatOf(last.times[j])) =>
                /\ IsTail(last.ret[i])
                /\ IsTail(last.ret[j])
                /\ TailGe(last.ret[i], last.ret[j])

C6_Witness ==
    /\ last.op = "_survival_function"
    /\ Sign(last.params[3]) < 0
    /\ PositiveIdx = {1, 2}
    /\ RLt(RatOf(last.times[1]), RatOf(last.times[2]))
    /\ last.ret[1] # last.ret[2]
    /\ TailGe(last.ret[1], last.ret[2])
    /\ ~TailGe(last.ret[2], last.ret[1])

\* x to the power r for positive x
Pow(x, r) == exp(Mul(r, log(x)))

\* the Weibull survival function exp(-(t / e^mu)^(1 / sigma))
WeibullSurvival(params, t) ==
    exp(Neg(Pow(Mul(t, exp(Neg(params[1]))), Div(Num(1), exp(params[2])))))

\* C7: with lambda = 1 the survival function is the Weibull one,
\* exp(-(t/e^mu)^(1/sigma)), and at the reference vector _compare_to_values
\* (mu = 0, ln_sigma = 0, lambda = 1) it is exp(-t).
C7_WeibullSubmodel ==
    last.op = "_survival_function" =>
        \A i \in PositiveIdx :
            /\ last.params[3] = Num(1) =>
                   last.ret[i] = WeibullSurvival(last.params, last.times[i])
            /\ last.params = _compare_to_values =>
                   last.ret[i] = exp(Neg(last.times[i]))

C7_Witness ==
    /\ last.op = "_survival_function"
    /\ last.params[3] = Num(1)
    /\ last.params[2] \notin {Num(0), NaN}
    /\ last.params[1] # Num(0)
    /\ 1 \in PositiveIdx
    /\ last.times[1] # Num(1)
    /\ IsFinite(last.ret[1])
    /\ last.ret[1] = WeibullSurvival(last.params, last.times[1])

\* the array whose logarithms _create_initial_point summarises
InitialPointData(censoring, Ts) ==
    CASE censoring = "right" -> Ts[1]
      [] censoring = "left" -> Ts[2]
      [] censoring = "interval" -> ASub(Ts[2], Ts[1])

\* C8: _create_initial_point returns the three numbers (mean of the log
\* data, log of its standard deviation, 0.1), the log data being log Ts[0]
\* under right censoring, log Ts[1] under left censoring and
\* log(Ts[1] - Ts[0]) under interval censoring; the event indicator and
\* earlier calls play no part.
C8_InitialPoint ==
    last.op = "_create_initial_point" =>
        /\ self.censoring \in CensoringType
        /\ Len(last.ret) = 3
        /\ last.ret[1] = Mean(ALog(InitialPointData(self.censoring, last.Ts)))
        /\ last.ret[2] = log(Std(ALog(InitialPointData(self.censoring, last.Ts))))
        /\ last.ret[3] = Q(<<1, 10>>)

C8_Witness ==
    /\ last.op = "_create_initial_point"
    /\ self.censoring = "left"
    /\ last.Ts[1] # last.Ts[2]
    /\ IsFinite(last.ret[2])
    /\ last.ret[1] = Mean(ALog(last.Ts[2]))
    /\ last.ret[1] # Mean(ALog(last.Ts[1]))

\* C9: with lambda_ = 0 every call of percentile raises and none returns.
C9_ZeroLambdaAlwaysRaises ==
    (last.op = "percentile" /\ self.lambda_ = Num(0)) => last.raised

NonPositiveIdx == {i \in DOMAIN last.times : ~Gt0(last.times[i])}

\* C10 as stated: at every t <= 0 each of the four evaluators returns a
\* non-finite value.
C10_NonPositiveTimeNonFinite ==
    last.op \in Evaluators =>
        \A i \in NonPositiveIdx : ~IsFinite(last.ret[i])

\* C10 amended: at every t < 0 each of the four evaluators returns nan
\* without raising; at t = 0 _log_hazard returns a non-finite value while
\* _survival_function returns the finite value 1 and _cumulative_hazard the
\* finite value 0.
C10_NegativeTimeNaN ==
    last.op \in Evaluators =>
        \A i \in NonPositiveIdx :
            /\ last.times[i] # Num(0) => last.ret[i] = NaN
            /\ (last.times[i] = Num(0) /\ last.op = "_log_hazard") =>
                   ~IsFinite(last.ret[i])
            /\ (last.times[i] = Num(0) /\ last.op = "_survival_function") =>
                   last.ret[i] = Num(1)
            /\ (last.times[i] = Num(0) /\ last.op = "_cumulative_hazard") =>
                   last.ret[i] = Num(0)

C10_Witness ==
    /\ last.op = "_survival_function"
    /\ last.times = <<Num(-1), Num(0)>>
    /\ last.ret = <<NaN, Num(1)>>

====
